---- MODULE Spec2Model ----
(***************************************************************************)
(* file-locker: FileLock over POSIX advisory record locks (fcntl).         *)
(*                                                                         *)
(* One file (the path every owner names) and a set of single-threaded      *)
(* processes.  Every call of FileLock::lock by a process takes the next    *)
(* slot of that process; the slot records the call's arguments, the state  *)
(* of the descriptor it opened and of the FileLock it returned, and the    *)
(* results handed back to the caller.  The kernel's record-lock table is   *)
(* klock: one whole-file lock per process, as fcntl keeps it (the code     *)
(* always locks l_start = 0, l_len = 0).  A process's close of any         *)
(* descriptor of the file removes that process's lock on it (POSIX).       *)
(*                                                                         *)
(* Beside FileLock::lock the crate has the builder (FileLock::new, the two *)
(* setters, FileLockBuilder::lock) and the extern "C" functions c_lock and *)
(* c_unlock of file_lock.rs, which take the raw descriptor of a handle     *)
(* (FileLock::as_raw_fd).  The descriptor of slot h of a process is        *)
(* numbered h.                                                             *)
(***************************************************************************)
EXTENDS Integers, FiniteSets

\* Bounds of the model: the processes, the lock() calls all processes make
\* together, the unlock() calls made on the handles that are live, the
\* processes (the first ones) that call c_lock and c_unlock.
NumProcs == 2
MaxCalls == 3
MaxUnlocks == 2
NumRaw == 1

Procs == 1..NumProcs
Slots == 1..MaxCalls

VARIABLES
    fileExists,   \* whether the path names a file
    klock,        \* klock[p]: the lock process p holds on the file (l_type)
    filelock,     \* filelock[p][h]: the h-th lock() call of p and its FileLock
    result,       \* result[p]: what the last lock() call of p asked and returned
    builder,      \* the FileLockBuilder under construction, and its owner
    craw,         \* craw[p]: the c_lock call p is suspended in, if any
    cret          \* what c_lock / c_unlock returned, when it was the last step

vars == <<fileExists, klock, filelock, result, builder, craw, cret>>

\* Variant: every request is a read lock.
LTypeAlwaysRead(writeable) == "F_RDLCK"

\* Variant: the test of writeable is inverted.
LTypeInverted(writeable) == IF writeable THEN "F_RDLCK" ELSE "F_WRLCK"

\* l_type of the request (lib.rs 124-128, file_lock.rs 12).
LType(writeable) == IF writeable THEN "F_WRLCK" ELSE "F_RDLCK"

\* Variant: the blocking flag is ignored and every request waits.
CmdAlwaysWait(blocking) == "F_SETLKW"

\* Variant: the blocking flag is ignored and no request waits.
CmdNeverWait(blocking) == "F_SETLK"

\* The fcntl command of the request (lib.rs 134-138, file_lock.rs 18).
Cmd(blocking) == IF blocking THEN "F_SETLKW" ELSE "F_SETLK"

\* cver and std's mapping of the errno to the error the caller sees.
Cver(errno) ==
    CASE errno = "EAGAIN" -> "WouldBlock"
      [] errno = "EINTR" -> "Interrupted"
      [] errno = "ENOENT" -> "NotFound"
      [] OTHER -> "Other"

\* fl.l_type of c_lock (file_lock.rs 12).
CLType(is_writable) == IF is_writable # 0 THEN "F_WRLCK" ELSE "F_RDLCK"

\* The fcntl command of c_lock (file_lock.rs 18).
CCmd(is_blocking) == IF is_blocking # 0 THEN "F_SETLKW" ELSE "F_SETLK"

\* The value of errno after a failed fcntl (file_lock.rs 22, 45), and
\* libc::EBADF (file_lock.rs 7, 31), as Linux numbers them.
Errno(e) ==
    CASE e = "EINTR" -> 4
      [] e = "EBADF" -> 9
      [] e = "EAGAIN" -> 11
      [] e = "EDEADLK" -> 35

\* Variant: the result of fcntl (-1) is returned in place of errno.
CReturnResult(out) == IF out = "ok" THEN 0 ELSE -1

\* What c_lock and c_unlock return after their fcntl (file_lock.rs 21-25,
\* 44-48).
CReturn(out) == IF out = "ok" THEN 0 ELSE Errno(out)

\* Variant: unlock asks for a read lock instead of removing the lock.
UnlockTypeRead == "F_RDLCK"

\* l_type of the request unlock makes (lib.rs 169, file_lock.rs 35).
UnlockType == "F_UNLCK"

\* Variant: create(true) whatever writeable is.
OpenOkCreateAlways(writeable) == TRUE

\* OpenOptions::new().read(true).write(writeable).create(writeable).open():
\* succeeds when the file is there or is created.
OpenOk(writeable) == fileExists \/ writeable

\* FileLock::new: the configuration a builder starts with (lib.rs 76-82).
FileLockNew == [blocking |-> FALSE, writeable |-> FALSE]

\* FileLockBuilder::blocking (lib.rs 239-242).
SetBlocking(cfg, v) == [cfg EXCEPT !.blocking = v]

\* Variant: writeable() overwrites the blocking field as well.
SetWriteableClobbers(cfg, v) == [cfg EXCEPT !.writeable = v, !.blocking = v]

\* FileLockBuilder::writeable (lib.rs 245-248).
SetWriteable(cfg, v) == [cfg EXCEPT !.writeable = v]

\* No builder is under construction.  given records, for each setter, the
\* value of its last call on the builder (empty when it was never called).
NoBuilder ==
    [owner |-> 0, cfg |-> FileLockNew,
     given |-> [blocking |-> {}, writeable |-> {}]]

\* p is not suspended in c_lock.
Idle == [st |-> "idle", ltype |-> "F_UNLCK"]

\* The last step was not the return of c_lock or c_unlock.  In a return,
\* early tells that the function left at its test of fd, before any fcntl.
NoRet == [fn |-> "none", early |-> FALSE, rc |-> 0]

\* The values tried for the c_int flags of c_lock and for the descriptor.
CInts == {0, 1}
Fds == {-1} \cup (1..MaxCalls)

\* A slot nobody has used yet.
Unused ==
    [st |-> "unused", blocking |-> FALSE, writeable |-> FALSE,
     unlocks |-> 0, ures |-> "none", sole |-> FALSE, created |-> FALSE]

\* A slot whose descriptor is closed (or was never opened) and that holds no
\* FileLock: the call failed, or its FileLock was dropped.
Closed == [Unused EXCEPT !.st = "closed"]

\* p is inside a lock() call (between open and the return of fcntl), or
\* suspended in c_lock.
Busy(p) ==
    \/ \E h \in Slots : filelock[p][h].st \in {"opened", "waiting"}
    \/ craw[p].st = "waiting"

\* fd is a number a caller in p may pass for a descriptor: a negative one, or
\* that of a descriptor p was given by a lock() call.
Passes(p, fd) == fd < 0 \/ (fd \in Slots /\ filelock[p][fd].st # "unused")

\* The descriptor of slot h of p is open.
FdOpen(p, h) == filelock[p][h].st \in {"opened", "waiting", "live"}

\* The number of lock() calls p has made.
Calls(p) == Cardinality({h \in Slots : filelock[p][h].st # "unused"})

\* The slot the next lock() call of p takes.
NextSlot(p) == Calls(p) + 1

RECURSIVE TotalCalls(_)
TotalCalls(n) == IF n = 0 THEN 0 ELSE Calls(n) + TotalCalls(n - 1)

\* The number of unlock() calls made on the live handles of p.
RECURSIVE Unlocks(_, _)
Unlocks(p, h) ==
    IF h = 0 THEN 0 ELSE filelock[p][h].unlocks + Unlocks(p, h - 1)

RECURSIVE TotalUnlocks(_)
TotalUnlocks(n) ==
    IF n = 0 THEN 0 ELSE Unlocks(n, MaxCalls) + TotalUnlocks(n - 1)

----------------------------------------------------------------------------
\* The kernel's side of fcntl(fd, F_SETLK / F_SETLKW, &flock) on the whole file.

\* Variant: a read request is granted beside a write lock.
ConflictingWriteOnly(p, ltype) ==
    {q \in Procs \ {p} : klock[q] # "F_UNLCK" /\ ltype = "F_WRLCK"}

\* Variant: read locks exclude each other too.
ConflictingAny(p, ltype) == {q \in Procs \ {p} : klock[q] # "F_UNLCK"}

\* The other processes whose lock is incompatible with a request of ltype by p:
\* read locks are compatible with each other, a write lock with nothing.
Conflicting(p, ltype) ==
    {q \in Procs \ {p} :
        /\ klock[q] # "F_UNLCK"
        /\ (ltype = "F_WRLCK" \/ klock[q] = "F_WRLCK")}

\* The processes a suspended F_SETLKW of q is waiting for.
WaitsFor(q) ==
    (UNION {Conflicting(q, LType(filelock[q][h].writeable)) :
               h \in {k \in Slots : filelock[q][k].st = "waiting"}})
    \cup (IF craw[q].st = "waiting"
          THEN Conflicting(q, craw[q].ltype) ELSE {})

RECURSIVE ReachFrom(_, _)
ReachFrom(S, n) ==
    IF n = 0 THEN S
    ELSE ReachFrom(S \cup UNION {WaitsFor(q) : q \in S}, n - 1)

\* Suspending p would close a cycle of waiting processes (EDEADLK).
WouldDeadlock(p, ltype) == p \in ReachFrom(Conflicting(p, ltype), NumProcs)

\* Variant: removing a lock that is not held is an error.
FcntlOutcomeStrictUnlock(p, cmd, ltype) ==
    IF ltype = "F_UNLCK"
    THEN (IF klock[p] = "F_UNLCK" THEN "EINVAL" ELSE "ok")
    ELSE IF Conflicting(p, ltype) = {} THEN "ok"
    ELSE IF cmd = "F_SETLK" THEN "EAGAIN"
    ELSE IF WouldDeadlock(p, ltype) THEN "EDEADLK"
    ELSE "wait"

\* Variant: removing a lock contends with the locks of the other processes.
FcntlOutcomeUnlockContends(p, cmd, ltype) ==
    IF /\ ltype = "F_UNLCK" => \A q \in Procs \ {p} : klock[q] = "F_UNLCK"
       /\ ltype # "F_UNLCK" => Conflicting(p, ltype) = {}
    THEN "ok"
    ELSE IF cmd = "F_SETLK" THEN "EAGAIN"
    ELSE IF WouldDeadlock(p, ltype) THEN "EDEADLK"
    ELSE "wait"

\* What fcntl answers at once: "ok", an errno, or "wait" (F_SETLKW sleeps).
FcntlOutcome(p, cmd, ltype) ==
    IF ltype = "F_UNLCK" \/ Conflicting(p, ltype) = {} THEN "ok"
    ELSE IF cmd = "F_SETLK" THEN "EAGAIN"
    ELSE IF WouldDeadlock(p, ltype) THEN "EDEADLK"
    ELSE "wait"

\* fcntl on a descriptor the caller names by number (file_lock.rs 17-19,
\* 40-42): EBADF when it is not an open descriptor of the process, or when a
\* write lock is asked through a descriptor not open for writing.
FcntlFd(p, fd, cmd, ltype) ==
    IF fd \notin Slots THEN "EBADF"
    ELSE IF ~FdOpen(p, fd) THEN "EBADF"
    ELSE IF ltype = "F_WRLCK" /\ ~filelock[p][fd].writeable THEN "EBADF"
    ELSE FcntlOutcome(p, cmd, ltype)

\* The lock table after p's lock became ltype.
SetLock(p, ltype) == [klock EXCEPT ![p] = ltype]

\* The lock table k after p closed a descriptor of the file: every lock p
\* holds on the file is removed, whichever descriptor it was taken through.
CloseFd(k, p) == [k EXCEPT ![p] = "F_UNLCK"]

----------------------------------------------------------------------------
\* FileLock::lock, first half: the open (lib.rs 118-122), whoever calls it.
OpenCall(p, blocking, writeable) ==
    /\ ~Busy(p)
    /\ TotalCalls(NumProcs) < MaxCalls
    /\ LET h == NextSlot(p) IN
       IF OpenOk(writeable)
       THEN /\ fileExists' = TRUE
            /\ filelock' = [filelock EXCEPT ![p] =
                   [k \in Slots |->
                      IF k = h
                      THEN [Unused EXCEPT !.st = "opened",
                                          !.blocking = blocking,
                                          !.writeable = writeable,
                                          !.sole = \A j \in Slots : ~FdOpen(p, j),
                                          !.created = ~fileExists]
                      ELSE [filelock[p][k] EXCEPT !.sole = FALSE]]]
            /\ UNCHANGED <<klock, result>>
       ELSE /\ filelock' = [filelock EXCEPT ![p][h] = Closed]
            /\ result' = [result EXCEPT ![p] =
                   [res |-> Cver("ENOENT"), writeable |-> writeable]]
            /\ UNCHANGED <<fileExists, klock>>
    /\ cret' = NoRet
    /\ UNCHANGED craw

\* FileLock::lock called directly (lib.rs 113-122).
LockOpen(p, blocking, writeable) ==
    /\ OpenCall(p, blocking, writeable)
    /\ UNCHANGED builder

\* fcntl returned 0: Ok(Self { file }) (lib.rs 139-140).
Granted(p, h) ==
    /\ klock' = SetLock(p, LType(filelock[p][h].writeable))
    /\ filelock' = [filelock EXCEPT ![p][h].st = "live",
                                    ![p][h].blocking = FALSE]
    /\ result' = [result EXCEPT ![p] =
           [res |-> "Ok", writeable |-> filelock[p][h].writeable]]
    /\ UNCHANGED fileExists
    /\ cret' = NoRet
    /\ UNCHANGED <<builder, craw>>

\* fcntl failed: map_err(cver)? returns the error and drops (closes) file
\* (lib.rs 139).
Failed(p, h, errno) ==
    /\ klock' = CloseFd(klock, p)
    /\ filelock' = [filelock EXCEPT ![p][h] = Closed]
    /\ result' = [result EXCEPT ![p] =
           [res |-> Cver(errno), writeable |-> filelock[p][h].writeable]]
    /\ UNCHANGED fileExists
    /\ cret' = NoRet
    /\ UNCHANGED <<builder, craw>>

\* FileLock::lock, second half: the fcntl call (lib.rs 123-140).
LockFcntl(p) ==
    \E h \in Slots :
        /\ filelock[p][h].st = "opened"
        /\ LET out == FcntlOutcome(p, Cmd(filelock[p][h].blocking),
                                   LType(filelock[p][h].writeable)) IN
           CASE out = "ok" -> Granted(p, h)
             [] out = "wait" ->
                  /\ filelock' = [filelock EXCEPT ![p][h].st = "waiting"]
                  /\ cret' = NoRet
                  /\ UNCHANGED <<fileExists, klock, result, builder, craw>>
             [] OTHER -> Failed(p, h, out)

\* The kernel grants a suspended F_SETLKW once nothing conflicts.
Grant(p) ==
    \E h \in Slots :
        /\ filelock[p][h].st = "waiting"
        /\ Conflicting(p, LType(filelock[p][h].writeable)) = {}
        /\ Granted(p, h)

\* Variant: the call issues its lock request again after EINTR.
InterruptRetries(p) ==
    \E h \in Slots :
        /\ filelock[p][h].st = "waiting"
        /\ filelock' = [filelock EXCEPT ![p][h].st = "opened"]
        /\ cret' = NoRet
        /\ UNCHANGED <<fileExists, klock, result, builder, craw>>

\* A signal interrupts a suspended F_SETLKW: fcntl fails with EINTR.
Interrupt(p) ==
    \E h \in Slots :
        /\ filelock[p][h].st = "waiting"
        /\ Failed(p, h, "EINTR")

\* FileLock::unlock (lib.rs 167-178).
Unlock(p, h) ==
    /\ ~Busy(p)
    /\ filelock[p][h].st = "live"
    /\ TotalUnlocks(NumProcs) < MaxUnlocks
    /\ LET out == FcntlOutcome(p, "F_SETLK", UnlockType) IN
       /\ klock' = IF out = "ok" THEN SetLock(p, UnlockType) ELSE klock
       /\ filelock' = [filelock EXCEPT
              ![p][h].unlocks = @ + 1,
              ![p][h].ures = IF out = "ok" THEN "Ok" ELSE Cver(out)]
    /\ UNCHANGED <<fileExists, result>>
    /\ cret' = NoRet
    /\ UNCHANGED <<builder, craw>>

\* Variant: the destructor neither unlocks nor closes (the descriptor leaks).
DropReleaseLeak(p) == klock

\* The lock table after Drop for FileLock: let _ = self.unlock(), its result
\* thrown away, then the file field is dropped, which closes the descriptor
\* (lib.rs 257-261).
DropRelease(p) ==
    LET out == FcntlOutcome(p, "F_SETLK", UnlockType) IN
    CloseFd(IF out = "ok" THEN SetLock(p, UnlockType) ELSE klock, p)

\* Drop for FileLock (lib.rs 257-261).
Drop(p, h) ==
    /\ ~Busy(p)
    /\ filelock[p][h].st = "live"
    /\ klock' = DropRelease(p)
    /\ filelock' = [filelock EXCEPT ![p][h] = Closed]
    /\ UNCHANGED <<fileExists, result>>
    /\ cret' = NoRet
    /\ UNCHANGED <<builder, craw>>

\* Variant: a forwarded I/O call takes a read lock.
PassthroughRelocks(p) == SetLock(p, "F_RDLCK")

\* The lock table after a call forwarded to the inner File (Read, Write, Seek,
\* AsRawFd, FileExt: lib.rs 181-225): none of them makes a lock request.
Passthrough(p) == klock

\* An I/O call on the FileLock of slot (p, h) (lib.rs 181-225).
Io(p, h) ==
    /\ ~Busy(p)
    /\ filelock[p][h].st = "live"
    /\ klock' = Passthrough(p)
    /\ UNCHANGED <<fileExists, filelock, result>>
    /\ cret' = NoRet
    /\ UNCHANGED <<builder, craw>>

----------------------------------------------------------------------------
\* The builder (lib.rs 76-82, 227-255).

\* FileLock::new (lib.rs 76-82).
BuilderNew(p) ==
    /\ builder.owner = 0
    /\ ~Busy(p)
    /\ TotalCalls(NumProcs) < MaxCalls
    /\ builder' = [NoBuilder EXCEPT !.owner = p]
    /\ cret' = NoRet
    /\ UNCHANGED <<fileExists, klock, filelock, result, craw>>

\* builder.blocking(v) (lib.rs 239-242).
BuilderBlocking(p, v) ==
    /\ builder.owner = p
    /\ builder' = [builder EXCEPT !.cfg = SetBlocking(@, v),
                                  !.given.blocking = {v}]
    /\ cret' = NoRet
    /\ UNCHANGED <<fileExists, klock, filelock, result, craw>>

\* builder.writeable(v) (lib.rs 245-248).
BuilderWriteable(p, v) ==
    /\ builder.owner = p
    /\ builder' = [builder EXCEPT !.cfg = SetWriteable(@, v),
                                  !.given.writeable = {v}]
    /\ cret' = NoRet
    /\ UNCHANGED <<fileExists, klock, filelock, result, craw>>

\* builder.lock(): FileLock::lock(self.file_path, self.blocking,
\* self.writeable), the builder being consumed (lib.rs 252-254).
BuilderLock(p) ==
    /\ builder.owner = p
    /\ OpenCall(p, builder.cfg.blocking, builder.cfg.writeable)
    /\ builder' = NoBuilder

----------------------------------------------------------------------------
\* The extern "C" entry points (file_lock.rs).

\* The lock table after the fcntl of c_lock returned or went to sleep
\* (file_lock.rs 17-19).
CLockTable(p, fd, is_blocking, is_writable) ==
    IF FcntlFd(p, fd, CCmd(is_blocking), CLType(is_writable)) = "ok"
    THEN SetLock(p, CLType(is_writable))
    ELSE klock

\* c_lock (file_lock.rs 5-26).
CLock(p, fd, is_blocking, is_writable) ==
    /\ ~Busy(p)
    /\ Passes(p, fd)
    /\ p <= NumRaw
    /\ IF fd < 0
       THEN /\ cret' = [fn |-> "c_lock", early |-> TRUE, rc |-> Errno("EBADF")]
            /\ UNCHANGED <<klock, craw>>
       ELSE LET out == FcntlFd(p, fd, CCmd(is_blocking), CLType(is_writable)) IN
            /\ klock' = CLockTable(p, fd, is_blocking, is_writable)
            /\ craw' = [craw EXCEPT ![p] =
                   [st |-> IF out = "wait" THEN "waiting" ELSE "idle",
                    ltype |-> IF out = "wait" THEN CLType(is_writable)
                              ELSE "F_UNLCK"]]
            /\ cret' = IF out = "wait" THEN NoRet
                       ELSE [fn |-> "c_lock", early |-> FALSE,
                             rc |-> CReturn(out)]
    /\ UNCHANGED <<fileExists, filelock, result, builder>>

\* The kernel grants the F_SETLKW c_lock is suspended in: c_lock returns 0.
CGrant(p) ==
    /\ craw[p].st = "waiting"
    /\ Conflicting(p, craw[p].ltype) = {}
    /\ klock' = SetLock(p, craw[p].ltype)
    /\ craw' = [craw EXCEPT ![p] = Idle]
    /\ cret' = [fn |-> "c_lock", early |-> FALSE, rc |-> CReturn("ok")]
    /\ UNCHANGED <<fileExists, filelock, result, builder>>

\* A signal interrupts the F_SETLKW c_lock is suspended in: errno is EINTR.
CInterrupt(p) ==
    /\ craw[p].st = "waiting"
    /\ craw' = [craw EXCEPT ![p] = Idle]
    /\ cret' = [fn |-> "c_lock", early |-> FALSE, rc |-> CReturn("EINTR")]
    /\ UNCHANGED <<fileExists, klock, filelock, result, builder>>

\* The lock table after the fcntl of c_unlock (file_lock.rs 40-42).
CUnlockTable(p, fd) ==
    IF FcntlFd(p, fd, "F_SETLK", UnlockType) = "ok"
    THEN SetLock(p, UnlockType)
    ELSE klock

\* c_unlock (file_lock.rs 29-49).
CUnlock(p, fd) ==
    /\ ~Busy(p)
    /\ Passes(p, fd)
    /\ p <= NumRaw
    /\ IF fd < 0
       THEN /\ cret' = [fn |-> "c_unlock", early |-> TRUE, rc |-> Errno("EBADF")]
            /\ UNCHANGED klock
       ELSE LET out == FcntlFd(p, fd, "F_SETLK", UnlockType) IN
            /\ klock' = CUnlockTable(p, fd)
            /\ cret' = [fn |-> "c_unlock", early |-> FALSE, rc |-> CReturn(out)]
    /\ UNCHANGED <<fileExists, filelock, result, builder, craw>>

----------------------------------------------------------------------------
Init ==
    /\ fileExists \in BOOLEAN
    /\ klock = [p \in Procs |-> "F_UNLCK"]
    /\ filelock = [p \in Procs |-> [h \in Slots |-> Unused]]
    /\ result = [p \in Procs |-> [res |-> "none", writeable |-> FALSE]]
    /\ builder = NoBuilder
    /\ craw = [p \in Procs |-> Idle]
    /\ cret = NoRet


Next ==
    \/ \E p \in Procs, blocking \in BOOLEAN, writeable \in BOOLEAN :
           LockOpen(p, blocking, writeable)
    \/ \E p \in Procs : LockFcntl(p)
    \/ \E p \in Procs : Grant(p)
    \/ \E p \in Procs : Interrupt(p)
    \/ \E p \in Procs, h \in Slots : Unlock(p, h)
    \/ \E p \in Procs, h \in Slots : Drop(p, h)
    \/ \E p \in Procs, h \in Slots : Io(p, h)

Spec == Init /\ [][Next]_vars

\* The owners that configure every lock() call through the builder.
BuilderNext ==
    \/ \E p \in Procs : BuilderNew(p)
    \/ \E p \in Procs, v \in BOOLEAN : BuilderBlocking(p, v)
    \/ \E p \in Procs, v \in BOOLEAN : BuilderWriteable(p, v)
    \/ \E p \in Procs : BuilderLock(p)
    \/ \E p \in Procs : LockFcntl(p)
    \/ \E p \in Procs : Grant(p)
    \/ \E p \in Procs : Interrupt(p)
    \/ \E p \in Procs, h \in Slots : Drop(p, h)

BuilderSpec == Init /\ [][BuilderNext]_vars

\* The file is there, and owners that hold handles taken without waiting call
\* c_lock and c_unlock on the descriptors of their handles.
RawInit == Init /\ fileExists

RawNext ==
    \/ \E p \in Procs, writeable \in BOOLEAN : LockOpen(p, FALSE, writeable)
    \/ \E p \in Procs : LockFcntl(p)
    \/ \E p \in Procs, h \in Slots : Drop(p, h)
    \/ \E p \in Procs, fd \in Fds, is_blocking \in CInts, is_writable \in CInts :
           CLock(p, fd, is_blocking, is_writable)
    \/ \E p \in Procs : CGrant(p)
    \/ \E p \in Procs : CInterrupt(p)
    \/ \E p \in Procs, fd \in Fds : CUnlock(p, fd)

RawSpec == RawInit /\ [][RawNext]_vars

\* A call in progress goes on, the kernel wakes a waiter whose lock is free,
\* an owner lets go of a handle.
Progress ==
    \/ \E p \in Procs : LockFcntl(p)
    \/ \E p \in Procs : Grant(p)
    \/ \E p \in Procs, h \in Slots : Drop(p, h)

\* No signal arrives, and as long as some process can make progress, one does.
NextNoSignal ==
    \/ \E p \in Procs, blocking \in BOOLEAN, writeable \in BOOLEAN :
           LockOpen(p, blocking, writeable)
    \/ \E p \in Procs : LockFcntl(p)
    \/ \E p \in Procs : Grant(p)
    \/ \E p \in Procs, h \in Slots : Unlock(p, h)
    \/ \E p \in Procs, h \in Slots : Drop(p, h)

LiveSpec ==
    /\ Init
    /\ [][NextNoSignal]_vars
    /\ WF_vars(Progress)

----------------------------------------------------------------------------
\* Steps of the behaviour, told from the slot (p, h) they change.

\* The fcntl of the lock() call in slot (p, h) returns at once.
FcntlStep(p, h) ==
    filelock[p][h].st = "opened" /\ filelock'[p][h].st # "opened"

\* The lock() call in slot (p, h) returns an error.
FailStep(p, h) ==
    filelock[p][h].st \in {"unused", "opened", "waiting"}
        /\ filelock'[p][h].st = "closed"

\* unlock() is called on the FileLock of slot (p, h).
UnlockStep(p, h) == filelock'[p][h].unlocks = filelock[p][h].unlocks + 1

\* The FileLock of slot (p, h) is dropped.
DropStep(p, h) == filelock[p][h].st = "live" /\ filelock'[p][h].st = "closed"

\* Another process holds a lock that excludes the one p asks for: any lock
\* for an exclusive request, an exclusive lock for a shared one.
OtherHoldsConflict(p, writeable) ==
    \E q \in Procs \ {p} :
        klock[q] # "F_UNLCK" /\ (writeable \/ klock[q] = "F_WRLCK")

\* The processes that hold such a lock.
Holders(p, writeable) ==
    {q \in Procs \ {p} :
        klock[q] # "F_UNLCK" /\ (writeable \/ klock[q] = "F_WRLCK")}

\* C1: mutual exclusion. In every reachable state, a process that holds a
\* write lock on the file (taken by lock(path, _, true), not yet released) is
\* the only process that holds any lock on it.
C1_MutualExclusion ==
    \A p \in Procs, q \in Procs :
        (p # q /\ klock[p] = "F_WRLCK") => klock[q] = "F_UNLCK"

\* C1 witness: a process holds the write lock through a live handle while
\* another process is suspended in a blocking request for the file.
C1_Witness ==
    \E p \in Procs, q \in Procs, h \in Slots, k \in Slots :
        /\ p # q
        /\ klock[p] = "F_WRLCK"
        /\ filelock[p][h].st = "live" /\ filelock[p][h].writeable
        /\ filelock[q][k].st = "waiting"

\* C2: a non-blocking request that conflicts with a lock of another process
\* never suspends (only blocking calls are ever waiting) and, each time it is
\* made while the conflict lasts, returns WouldBlock at once with no handle.
C2_NonBlockingWouldBlock ==
    /\ [](\A p \in Procs, h \in Slots :
            filelock[p][h].st = "waiting" => filelock[p][h].blocking)
    /\ [][\A p \in Procs, h \in Slots :
            (/\ FcntlStep(p, h)
             /\ ~filelock[p][h].blocking
             /\ OtherHoldsConflict(p, filelock[p][h].writeable))
            => (/\ filelock'[p][h].st = "closed"
                /\ result'[p].res = "WouldBlock"
                /\ \A k \in Slots :
                      filelock'[p][k].st = "live" => filelock[p][k].st = "live")
       ]_vars

\* C2 witness: a call has just returned WouldBlock while another process
\* holds a lock.
C2_Witness ==
    \E p \in Procs, q \in Procs :
        p # q /\ result[p].res = "WouldBlock" /\ klock[q] # "F_UNLCK"

\* C3: a blocking request is not answered with an error when the holders of
\* the locks in its way are not themselves inside a lock() call (a holder
\* suspended on the caller cannot release: EDEADLK); and with no signal and
\* the holders letting go, a suspended call leaves its suspension only by its
\* own slot becoming a live handle with result Ok, the caller retrying
\* nothing, and no call stays suspended for ever.
C3_BlockingEventuallyGranted ==
    /\ [][\A p \in Procs, h \in Slots :
            (/\ FcntlStep(p, h)
             /\ filelock[p][h].blocking
             /\ \A q \in Holders(p, filelock[p][h].writeable) : ~Busy(q))
            => filelock'[p][h].st \in {"waiting", "live"}
       ]_vars
    /\ [][\A p \in Procs, h \in Slots :
            (filelock[p][h].st = "waiting" /\ filelock'[p][h].st # "waiting")
            => (filelock'[p][h].st = "live" /\ result'[p].res = "Ok")
       ]_vars
    /\ <>[](\A p \in Procs, h \in Slots : filelock[p][h].st # "waiting")

\* C3 witness: a call is suspended, the holders it waited for have released,
\* and the kernel is about to grant it.
C3_Witness ==
    \E p \in Procs, h \in Slots :
        /\ filelock[p][h].st = "waiting"
        /\ ~OtherHoldsConflict(p, filelock[p][h].writeable)
        /\ \E q \in Procs \ {p}, k \in Slots : filelock[q][k].st = "closed"

\* C4: a shared request made while the other processes hold at most shared
\* locks succeeds in its fcntl call itself, blocking or not, and leaves the
\* other processes' locks as they were: the shared locks coexist.
C4_SharedCoexist ==
    [][\A p \in Procs, h \in Slots :
          (/\ FcntlStep(p, h)
           /\ ~filelock[p][h].writeable
           /\ \A q \in Procs \ {p} : klock[q] \in {"F_UNLCK", "F_RDLCK"})
          => (/\ filelock'[p][h].st = "live"
              /\ result'[p] = [res |-> "Ok", writeable |-> FALSE]
              /\ klock'[p] = "F_RDLCK"
              /\ \A q \in Procs \ {p} : klock'[q] = klock[q])
    ]_vars

\* C4 witness: two processes hold a shared lock at once, each through a live
\* handle that was never unlocked.
C4_Witness ==
    \E p \in Procs, q \in Procs, h \in Slots, k \in Slots :
        /\ p # q
        /\ klock[p] = "F_RDLCK" /\ klock[q] = "F_RDLCK"
        /\ filelock[p][h].st = "live" /\ filelock[p][h].unlocks = 0
        /\ filelock[q][k].st = "live" /\ filelock[q][k].unlocks = 0

\* C5: dropping a handle, unlocked before or not, leaves its owner without
\* any lock on the file and the other processes' locks as they were, so that
\* with no third holder the non-blocking exclusive request of another process
\* is granted from then on; and a process holds a lock only while it has
\* a live handle.
C5_DropReleases ==
    /\ [](\A p \in Procs :
            klock[p] # "F_UNLCK" => \E h \in Slots : filelock[p][h].st = "live")
    /\ [][\A p \in Procs, h \in Slots :
            DropStep(p, h)
            => (/\ klock'[p] = "F_UNLCK"
                /\ \A q \in Procs \ {p} :
                      /\ klock'[q] = klock[q]
                      /\ (\A r \in Procs \ {p, q} : klock[r] = "F_UNLCK")
                            => FcntlOutcome(q, Cmd(FALSE), LType(TRUE))' = "ok")
       ]_vars

\* C5 witness: a process took a lock with its only call and its handle was
\* dropped without unlock being the last thing it did; another process, whose
\* first call is over, now holds the write lock.
C5_Witness ==
    \E p \in Procs, q \in Procs :
        /\ p # q
        /\ Calls(p) = 1 /\ result[p].res = "Ok"
        /\ filelock[p][1].st = "closed"
        /\ Calls(q) = 2 /\ filelock[q][1].st = "closed"
        /\ filelock[q][2].st = "live"
        /\ klock[q] = "F_WRLCK"

\* C6: unlock() releases the owner's lock and nothing else: the handle stays
\* live (its file stays open), no other slot and no other process's lock
\* changes, and when no third process holds a lock the non-blocking
\* exclusive request of another process is granted from then on.
C6_UnlockReleasesEarly ==
    [][\A p \in Procs, h \in Slots :
          UnlockStep(p, h)
          => (/\ klock'[p] = "F_UNLCK"
              /\ filelock'[p][h].st = "live"
              /\ fileExists' = fileExists
              /\ \A q \in Procs \ {p} :
                    /\ klock'[q] = klock[q]
                    /\ (\A r \in Procs \ {p, q} : klock[r] = "F_UNLCK")
                          => FcntlOutcome(q, Cmd(FALSE), LType(TRUE))' = "ok")
    ]_vars

\* C6 witness: owner 1's write handle has been unlocked and is still live;
\* owner 2, whose first call is over, holds the write lock through its
\* second call.
C6_Witness ==
    \E p \in Procs, q \in Procs, h \in Slots :
        /\ p # q
        /\ filelock[p][h].st = "live" /\ filelock[p][h].writeable
        /\ filelock[p][h].unlocks = 1
        /\ Calls(q) = 2 /\ filelock[q][1].st = "closed"
        /\ filelock[q][2].st = "live" /\ filelock[q][2].writeable
        /\ klock[q] = "F_WRLCK"

\* C7 as stated: every live handle that was never unlocked has its owner
\* holding a lock of the type the handle was acquired with.
C7_LiveHandleHoldsLock ==
    \A p \in Procs, h \in Slots :
        (filelock[p][h].st = "live" /\ filelock[p][h].unlocks = 0)
            => klock[p] = (IF filelock[p][h].writeable THEN "F_WRLCK"
                                                       ELSE "F_RDLCK")

\* C7 amended: the same, for a handle whose descriptor has been the owner's
\* only open descriptor of the file since before it was opened.
C7_SoleHandleHoldsLock ==
    \A p \in Procs, h \in Slots :
        (/\ filelock[p][h].st = "live"
         /\ filelock[p][h].unlocks = 0
         /\ filelock[p][h].sole)
            => klock[p] = (IF filelock[p][h].writeable THEN "F_WRLCK"
                                                       ELSE "F_RDLCK")

\* C7 witness: a sole, never unlocked write handle taken by its owner's
\* second call, with another process suspended behind it.
C7_Witness ==
    \E p \in Procs, q \in Procs, k \in Slots :
        /\ p # q
        /\ filelock[p][2].st = "live" /\ filelock[p][2].unlocks = 0
        /\ filelock[p][2].sole /\ filelock[p][2].writeable
        /\ klock[p] = "F_WRLCK"
        /\ filelock[q][k].st = "waiting"

\* C8 as stated: a lock() call that returns an error produces no handle and
\* leaves every process's lock on the file, the caller's included, as it was
\* before the call.
C8_FailedAcquisitionStateless ==
    [][\A p \in Procs, h \in Slots :
          FailStep(p, h)
          => (/\ klock' = klock
              /\ \A k \in Slots \ {h} : filelock'[p][k] = filelock[p][k])
    ]_vars

\* C9: every unlock() on a handle, the first and the repeated one, returns Ok
\* and leaves the owner without a lock and the handle live; a repeated unlock
\* that finds no lock changes no lock; the handle's count of unlocks is never
\* taken back; and dropping an unlocked handle releases as any drop does.
C9_UnlockIdempotent ==
    [][\A p \in Procs, h \in Slots :
          /\ UnlockStep(p, h)
             => (/\ filelock'[p][h].ures = "Ok"
                 /\ filelock'[p][h].st = "live"
                 /\ klock'[p] = "F_UNLCK"
                 /\ (klock[p] = "F_UNLCK" => klock' = klock))
          /\ (filelock[p][h].st = "live" /\ filelock'[p][h].st = "live")
             => filelock'[p][h].unlocks >= filelock[p][h].unlocks
          /\ (DropStep(p, h) /\ filelock[p][h].unlocks > 0)
             => (klock'[p] = "F_UNLCK" /\ result' = result)
    ]_vars

\* C9 witness: unlock() was called twice on a live handle and returned Ok.
C9_Witness ==
    \E p \in Procs, h \in Slots :
        /\ filelock[p][h].st = "live"
        /\ filelock[p][h].unlocks = 2
        /\ filelock[p][h].ures = "Ok"

\* C10: while the file is absent no read-only call reaches its fcntl, and a
\* call that fails in open returns NotFound for a read-only request, with no
\* handle, the file still absent and every lock unchanged.
C10_ReadOnlyAbsentNotFound ==
    [][\A p \in Procs, h \in Slots :
          /\ (/\ ~fileExists
              /\ filelock[p][h].st = "unused"
              /\ filelock'[p][h].st # "unused")
             => (filelock'[p][h].st = "opened" => filelock'[p][h].writeable)
          /\ (filelock[p][h].st = "unused" /\ filelock'[p][h].st = "closed")
             => (/\ result'[p] = [res |-> "NotFound", writeable |-> FALSE]
                 /\ ~fileExists /\ ~fileExists'
                 /\ klock' = klock
                 /\ \A k \in Slots \ {h} : filelock'[p][k] = filelock[p][k])
    ]_vars

\* C10 witness: a read-only call has returned NotFound and the file is still
\* absent.
C10_Witness ==
    \E p \in Procs :
        /\ result[p] = [res |-> "NotFound", writeable |-> FALSE]
        /\ ~fileExists
        /\ filelock[p][1].st = "closed"

\* C11 as stated: a lock() call with writeable = true on an absent file
\* creates the file and returns a handle that holds the exclusive lock, for
\* both blocking values.
C11_AbsentWriteableLocks ==
    /\ [](\A p \in Procs, h \in Slots : filelock[p][h].created => fileExists)
    /\ [][\A p \in Procs, h \in Slots :
            (/\ filelock[p][h].created
             /\ filelock[p][h].st \in {"opened", "waiting"}
             /\ filelock'[p][h].st \notin {"opened", "waiting"})
            => (/\ filelock'[p][h].st = "live"
                /\ klock'[p] = "F_WRLCK"
                /\ fileExists')
       ]_vars

\* C11 amended: the open of such a call creates the file, the call asks for
\* the exclusive lock, and it returns a handle holding that lock in its fcntl
\* call when no other process holds a lock on the file by then; a suspended
\* one that leaves its suspension without a signal does so too.
C11_AbsentWriteableLocksIfFree ==
    /\ [](\A p \in Procs, h \in Slots :
            filelock[p][h].created
                => (fileExists /\ filelock[p][h].writeable))
    /\ [][\A p \in Procs, h \in Slots :
            /\ (/\ ~fileExists
                /\ filelock[p][h].st = "unused"
                /\ filelock'[p][h].st = "opened")
               => (fileExists' /\ filelock'[p][h].created)
            /\ (/\ filelock[p][h].created
                /\ FcntlStep(p, h)
                /\ \A q \in Procs \ {p} : klock[q] = "F_UNLCK")
               => (/\ filelock'[p][h].st = "live"
                   /\ klock'[p] = "F_WRLCK"
                   /\ result'[p] = [res |-> "Ok", writeable |-> TRUE])
            /\ (/\ filelock[p][h].created
                /\ filelock[p][h].st = "waiting"
                /\ filelock'[p][h].st = "live")
               => klock'[p] = "F_WRLCK"
       ]_vars

\* C11 witness: the handle of a call that created the file is live and its
\* owner holds the exclusive lock.
C11_Witness ==
    \E p \in Procs, h \in Slots :
        /\ filelock[p][h].created
        /\ filelock[p][h].st = "live"
        /\ klock[p] = "F_WRLCK"
        /\ fileExists

\* C12: a lock request made on the existing file while no other process
\* holds a lock on it succeeds in its fcntl call itself, for every combination
\* of blocking and writeable, and the handle is locked: its owner holds a
\* shared lock if writeable is false, an exclusive one if it is true.
C12_UncontendedSucceeds ==
    [][\A p \in Procs, h \in Slots :
          (/\ FcntlStep(p, h)
           /\ \A q \in Procs \ {p} : klock[q] = "F_UNLCK")
          => (/\ fileExists
              /\ filelock'[p][h].st = "live"
              /\ filelock'[p][h].unlocks = 0
              /\ result'[p] =
                    [res |-> "Ok", writeable |-> filelock[p][h].writeable]
              /\ klock'[p] = (IF filelock[p][h].writeable THEN "F_WRLCK"
                                                          ELSE "F_RDLCK"))
    ]_vars

\* C12 witness: the file was there from the start, a blocking shared call and
\* a non-blocking exclusive call of two processes have both returned Ok, and
\* the second is the only lock holder.
C12_Witness ==
    \E p \in Procs, q \in Procs :
        /\ p # q
        /\ ~filelock[p][1].created /\ ~filelock[q][1].created
        /\ filelock[p][1].st = "live" /\ ~filelock[p][1].writeable
        /\ klock[p] = "F_UNLCK"
        /\ filelock[q][1].st = "live" /\ filelock[q][1].writeable
        /\ klock[q] = "F_WRLCK"
        /\ result[p].res = "Ok" /\ result[q].res = "Ok"

\* C13: a suspended call that ends in an error ends with Interrupted and
\* without a handle, and no lock() call issues its lock request twice: a call
\* that is suspended or over never goes back to issuing it, and a call that
\* is over (its slot closed) stays over.
C13_InterruptedNoRetry ==
    [][\A p \in Procs, h \in Slots :
          /\ (filelock[p][h].st = "waiting" /\ filelock'[p][h].st = "closed")
             => (/\ result'[p].res = "Interrupted"
                 /\ \A k \in Slots :
                       filelock'[p][k].st = "live" => filelock[p][k].st = "live")
          /\ filelock[p][h].st = "waiting"
             => filelock'[p][h].st \in {"waiting", "live", "closed"}
          /\ filelock[p][h].st \in {"live", "closed"}
             => filelock'[p][h].st \in {"live", "closed"}
          /\ filelock[p][h].st = "closed" => filelock'[p][h].st = "closed"
    ]_vars

\* C13 witness: a blocking call has returned Interrupted and its slot is
\* closed, while the process it waited for still holds its lock.
C13_Witness ==
    \E p \in Procs, q \in Procs, h \in Slots :
        /\ p # q
        /\ result[p].res = "Interrupted"
        /\ filelock[p][h].st = "closed"
        /\ \A k \in Slots : filelock[p][k].st \in {"unused", "closed"}
        /\ klock[q] # "F_UNLCK"

\* The value a setter was last called with; false, the default of new(), when
\* it was never called.
LastGiven(S) == IF S = {} THEN FALSE ELSE CHOOSE v \in S : TRUE

\* C14: a builder holds, for blocking and for writeable, the value its setter
\* was last called with, false if it never was, whatever the order of the
\* calls of the two setters; and builder.lock() is the step lock(path,
\* blocking, writeable) makes with these two values.
C14_BuilderConfiguration ==
    [][/\ builder'.owner # 0
          => builder'.cfg =
                [blocking |-> LastGiven(builder'.given.blocking),
                 writeable |-> LastGiven(builder'.given.writeable)]
       /\ \A p \in Procs :
             (builder.owner = p /\ builder'.owner = 0)
             => OpenCall(p, LastGiven(builder.given.blocking),
                            LastGiven(builder.given.writeable))
    ]_vars

\* C14 witness: builder.lock() was called on a builder whose setters had last
\* been given blocking = true and writeable = true, and the call is suspended
\* in its exclusive request.
C14_Witness ==
    \E p \in Procs, h \in Slots :
        /\ builder.owner = 0
        /\ filelock[p][h].st = "waiting"
        /\ filelock[p][h].blocking /\ filelock[p][h].writeable

\* The descriptor fd of p is open on the file, and open for writing if
\* forWrite.
OpenFor(p, fd, forWrite) ==
    /\ fd \in Slots
    /\ filelock[p][fd].st \in {"opened", "waiting", "live"}
    /\ forWrite => filelock[p][fd].writeable

\* What C15 says of a c_lock(fd, is_blocking, is_writable) call of p that
\* leads from the state to the primed one.
C15_LockPost(p, fd, is_blocking, is_writable) ==
    LET forWrite == is_writable # 0
        want == IF forWrite THEN "F_WRLCK" ELSE "F_RDLCK" IN
    IF fd < 0
    THEN /\ cret' = [fn |-> "c_lock", early |-> TRUE, rc |-> Errno("EBADF")]
         /\ klock' = klock /\ craw' = craw /\ filelock' = filelock
    ELSE /\ ~cret'.early
         /\ filelock' = filelock
         /\ IF OpenFor(p, fd, forWrite) /\ ~OtherHoldsConflict(p, forWrite)
            THEN /\ cret'.fn = "c_lock" /\ cret'.rc = 0
                 /\ klock' = [klock EXCEPT ![p] = want]
            ELSE /\ klock' = klock
                 /\ \/ /\ cret'.fn = "c_lock"
                       /\ cret'.rc # 0
                       /\ cret'.rc = (IF ~OpenFor(p, fd, forWrite)
                                      THEN Errno("EBADF")
                                      ELSE IF is_blocking = 0
                                      THEN Errno("EAGAIN")
                                      ELSE Errno("EDEADLK"))
                    \/ /\ is_blocking # 0
                       /\ OpenFor(p, fd, forWrite)
                       /\ cret'.fn = "none"
                       /\ craw'[p].st = "waiting"

\* What C15 says of a c_unlock(fd) call of p.
C15_UnlockPost(p, fd) ==
    IF fd < 0
    THEN /\ cret' = [fn |-> "c_unlock", early |-> TRUE, rc |-> Errno("EBADF")]
         /\ klock' = klock /\ craw' = craw /\ filelock' = filelock
    ELSE /\ ~cret'.early /\ cret'.fn = "c_unlock"
         /\ craw' = craw /\ filelock' = filelock
         /\ IF OpenFor(p, fd, FALSE)
            THEN cret'.rc = 0 /\ klock' = [klock EXCEPT ![p] = "F_UNLCK"]
            ELSE cret'.rc = Errno("EBADF") /\ klock' = klock

\* C15: in every reachable state, c_lock and c_unlock called with a negative
\* descriptor return EBADF at their test of fd, no request made and every
\* lock unchanged; called with another descriptor they return 0 exactly when
\* the kernel carried the request out, and the error code of the failed fcntl
\* otherwise, the locks unchanged; a suspended c_lock returns 0 when it is
\* granted and EINTR when a signal ends it.
C15_RawReturnCodes ==
    \A p \in Procs :
        /\ \A fd \in Fds, is_blocking \in CInts, is_writable \in CInts :
              ~ENABLED (/\ CLock(p, fd, is_blocking, is_writable)
                        /\ ~C15_LockPost(p, fd, is_blocking, is_writable))
        /\ \A fd \in Fds :
              ~ENABLED (CUnlock(p, fd) /\ ~C15_UnlockPost(p, fd))
        /\ ~ENABLED (/\ CGrant(p)
                     /\ ~(/\ cret' = [fn |-> "c_lock", early |-> FALSE, rc |-> 0]
                          /\ klock' = [klock EXCEPT ![p] = craw[p].ltype]))
        /\ ~ENABLED (/\ CInterrupt(p)
                     /\ ~(/\ cret' = [fn |-> "c_lock", early |-> FALSE,
                                      rc |-> Errno("EINTR")]
                          /\ klock' = klock))

\* C15 witness: c_lock or c_unlock has returned EBADF at its test of fd while
\* two processes hold a lock on the file.
C15_Witness ==
    /\ cret.early
    /\ cret.rc = Errno("EBADF")
    /\ \E p \in Procs, q \in Procs :
          p # q /\ klock[p] = "F_RDLCK" /\ klock[q] = "F_RDLCK"

\* C16: locks are per process. When a process has two live handles, one of
\* them never unlocked, unlocking or dropping the other leaves the process
\* without any lock on the file, and with no third holder the non-blocking
\* exclusive request of another process is granted from then on, the first
\* handle being still live and never unlocked.
C16_PerProcessRelease ==
    [][\A p \in Procs, h \in Slots, k \in Slots :
          (/\ h # k
           /\ UnlockStep(p, h) \/ DropStep(p, h)
           /\ filelock[p][k].st = "live"
           /\ filelock[p][k].unlocks = 0)
          => (/\ filelock'[p][k] = filelock[p][k]
              /\ klock'[p] = "F_UNLCK"
              /\ \A q \in Procs \ {p} :
                    (\A r \in Procs \ {p, q} : klock[r] = "F_UNLCK")
                       => FcntlOutcome(q, Cmd(FALSE), LType(TRUE))' = "ok")
    ]_vars

\* C16 witness: a process has a live, never unlocked handle and a handle it
\* dropped or unlocked, and another process holds the exclusive lock.
C16_Witness ==
    \E p \in Procs, q \in Procs, h \in Slots, k \in Slots :
        /\ p # q /\ h # k
        /\ filelock[p][k].st = "live" /\ filelock[p][k].unlocks = 0
        /\ \/ filelock[p][h].st = "closed"
           \/ filelock[p][h].st = "live" /\ filelock[p][h].unlocks > 0
        /\ result[p].res = "Ok"
        /\ klock[p] = "F_UNLCK"
        /\ \E j \in Slots : filelock[q][j].st = "live" /\ filelock[q][j].writeable
        /\ klock[q] = "F_WRLCK"

\* C17: the two call surfaces are equivalent.  For the descriptor a lock()
\* call has just opened and c_int flags that stand for the call's blocking
\* and writeable, c_lock makes the request the call makes (exclusive iff
\* writeable, waiting iff blocking) and the call's fcntl step leaves the lock
\* table c_lock leaves; unlock() on a live handle leaves the lock table
\* c_unlock leaves on its descriptor.
C17_SurfacesEquivalent ==
    \A p \in Procs, h \in Slots :
        /\ filelock[p][h].st = "opened"
           => \A is_blocking \in CInts, is_writable \in CInts :
                 (/\ (is_blocking # 0) = filelock[p][h].blocking
                  /\ (is_writable # 0) = filelock[p][h].writeable)
                 => (/\ CCmd(is_blocking) = Cmd(filelock[p][h].blocking)
                     /\ CLType(is_writable) = LType(filelock[p][h].writeable)
                     /\ ~ENABLED (/\ LockFcntl(p)
                                  /\ klock' # CLockTable(p, h, is_blocking,
                                                         is_writable)))
        /\ filelock[p][h].st = "live"
           => ~ENABLED (Unlock(p, h) /\ klock' # CUnlockTable(p, h))

\* The handle of slot (p, h) is in its Locked state: it exists and neither
\* unlock() nor the destructor has run on it.
Locked(p, h) == filelock[p][h].st = "live" /\ filelock[p][h].unlocks = 0

\* The handle of slot (p, h) is in its Unlocked state: unlock() has run on it,
\* or it was destroyed.
Unlocked(p, h) ==
    \/ filelock[p][h].st = "live" /\ filelock[p][h].unlocks > 0
    \/ filelock[p][h].st = "closed"

\* C18: a handle comes to exist only in the step in which the fcntl of its
\* lock() call is granted, the call returning Ok, and it starts Locked, its
\* owner holding the lock asked for; a Locked handle stays Locked or becomes
\* Unlocked, and it becomes Unlocked only by its unlock() or its destruction,
\* which leave its owner without a lock; an Unlocked handle stays Unlocked;
\* and no step other than a lock() call being granted gives a process a lock,
\* so no unlock(), I/O call or drop of a handle locks again.
C18_HandleLifecycle ==
    [][\A p \in Procs, h \in Slots :
          /\ (filelock[p][h].st # "live" /\ filelock'[p][h].st = "live")
             => (/\ filelock[p][h].st \in {"opened", "waiting"}
                 /\ result'[p].res = "Ok"
                 /\ Locked(p, h)'
                 /\ klock'[p] = (IF filelock'[p][h].writeable THEN "F_WRLCK"
                                                              ELSE "F_RDLCK"))
          /\ Locked(p, h) => (Locked(p, h)' \/ Unlocked(p, h)')
          /\ (Locked(p, h) /\ Unlocked(p, h)')
             => (/\ UnlockStep(p, h) \/ DropStep(p, h)
                 /\ klock'[p] = "F_UNLCK")
          /\ Unlocked(p, h) => Unlocked(p, h)'
          /\ (Unlocked(p, h) /\ (UnlockStep(p, h) \/ DropStep(p, h)))
             => klock'[p] = "F_UNLCK"
          /\ (klock'[p] # klock[p] /\ klock'[p] # "F_UNLCK")
             => \E k \in Slots :
                   /\ filelock[p][k].st \in {"opened", "waiting"}
                   /\ filelock'[p][k].st = "live"
    ]_vars

\* C18 witness: a process has dropped its handle and holds no lock; another
\* one keeps a handle it has unlocked, which stays Unlocked, and holds the
\* exclusive lock it took through a later handle.
C18_Witness ==
    \E p \in Procs, q \in Procs, h \in Slots :
        /\ p # q
        /\ filelock[p][h].st = "closed"
        /\ result[p].res = "Ok"
        /\ \A k \in Slots : filelock[p][k].st # "live"
        /\ klock[p] = "F_UNLCK"
        /\ klock[q] = "F_WRLCK"
        /\ \E k \in Slots : filelock[q][k].st = "live" /\ filelock[q][k].unlocks = 1

\* C19: unlock() never waits.  Whatever locks the other processes hold or are
\* suspended for, and however the handle's lock was acquired, a call of
\* unlock() is over in the step it is made in: its owner is not left inside a
\* call, the call has returned Ok, and the owner's lock is removed, the
\* locks of the others and their suspended calls being as before.
C19_UnlockNeverWaits ==
    [][\A p \in Procs, h \in Slots :
          UnlockStep(p, h)
          => (/\ filelock'[p][h].st = "live"
              /\ filelock'[p][h].ures = "Ok"
              /\ \A k \in Slots : filelock'[p][k].st \notin {"opened", "waiting"}
              /\ craw'[p].st = "idle"
              /\ klock'[p] = "F_UNLCK"
              /\ \A q \in Procs \ {p} :
                    klock'[q] = klock[q] /\ filelock'[q] = filelock[q])
    ]_vars

\* C19 witness: unlock() has returned Ok on a handle while another process
\* holds a lock on the file and a third call is suspended.
C19_Witness ==
    \E p \in Procs, q \in Procs, h \in Slots :
        /\ p # q
        /\ filelock[p][h].st = "live"
        /\ filelock[p][h].unlocks = 1
        /\ filelock[p][h].ures = "Ok"
        /\ klock[p] = "F_UNLCK"
        /\ \E k \in Slots : filelock[q][k].st = "waiting"

====
